---- MODULE Spec2Model ----
(***************************************************************************)
(* KamehamehaDetector (lib/kamehamehaDetection): the gesture state machine *)
(* driven once per frame by detectGesture(hands), plus reset().            *)
(*                                                                         *)
(* A frame is described by what detectGesture looks at: whether the hands  *)
(* argument is present, its length, and the verdicts of the two pose       *)
(* scorers on it.  Date.now() is the variable now; every call reads it     *)
(* once, after it advanced by one of Steps.  All clock readings are        *)
(* multiples of 5000 ms, so chargingRatio * maxFiringDuration is a whole   *)
(* number of milliseconds.                                                 *)
(*                                                                         *)
(* Seven variables record the calls made and are not fields of the         *)
(* detector: previousState (the local of that name in detectGesture),      *)
(* lastCall (which method ran last), invalidRun (how many two-hand         *)
(* frames with an invalid firing pose arrived in a row while firing),      *)
(* startRun (how many charging-valid frames arrived in a row, counted from *)
(* a frame processed in idle, until charging is entered), callbacks        *)
(* (the invocations of onGestureChange made by that call, in order),       *)
(* phaseFrames (how many calls in a row have returned in the present       *)
(* phase, kept for positioning and firing) and lastDelivered (the state    *)
(* passed to onGestureChange most recently, idle before the first).        *)
(*                                                                         *)
(* The helpers that work on keypoints (identifyHands, the pose scorers,    *)
(* calculateBeamDirectionFromWrists) are checked on their own: input holds *)
(* the argument, output the value returned, and SpecIdentify, SpecPose and *)
(* SpecBeam draw the argument from a bounded set while the detector stays  *)
(* as constructed.                                                         *)
(***************************************************************************)
EXTENDS Integers, Sequences, FiniteSets, TLC

\* ---------------------------------------------------------------- bounds
\* last clock reading the model explores (ms)
MaxTime == 20000

\* clock advance between two successive calls (ms)
Steps == {0, 5000}

\* ------------------------------------------------------ program constants
minimumChargingTime == 5000
maxChargingTime == 20000
maxFiringDuration == 15000
firingStabilityThreshold == 5
PositioningFrames == 15
FiringFrameCap == 120
MinFiringDuration == 1875

States == {"idle", "positioning", "charging", "firing"}

\* ------------------------------------------------------------------ frames
\* hands = null, or an array of 0..3 hands; for an array of two hands,
\* wrists says whether both hands carry a wrist keypoint and the two pose
\* booleans are what analyzeChargingPose / the firing score say of it.
NullHands ==
    [present |-> FALSE, length |-> 0, wrists |-> FALSE,
     startingPose |-> FALSE, firingPose |-> FALSE]

Frames ==
    {NullHands}
    \cup {[present |-> TRUE, length |-> n, wrists |-> FALSE,
           startingPose |-> FALSE, firingPose |-> FALSE] : n \in {0, 1, 3}}
    \cup {[present |-> TRUE, length |-> 2, wrists |-> TRUE,
           startingPose |-> s, firingPose |-> f] : s \in BOOLEAN, f \in BOOLEAN}
    \cup {[present |-> TRUE, length |-> 2, wrists |-> FALSE,
           startingPose |-> FALSE, firingPose |-> FALSE]}

\* identifyHands(hands) found a left and a right hand
HandsIdentified(hands) == hands.present /\ hands.length = 2 /\ hands.wrists

isInStartingPosition(hands) ==
    IF ~hands.present \/ hands.length # 2 THEN FALSE
    ELSE IF ~HandsIdentified(hands) THEN FALSE
    ELSE hands.startingPose

isInFiringPosition(hands) ==
    IF ~hands.present \/ hands.length # 2 THEN FALSE
    ELSE IF ~HandsIdentified(hands) THEN FALSE
    ELSE hands.firingPose

\* the method field of the direction record calculateThrustDirection returns
calculateThrustDirection(hands) ==
    IF ~hands.present \/ hands.length # 2 THEN "default" ELSE "origin-to-midpoint"

Min(a, b) == IF a <= b THEN a ELSE b
Max(a, b) == IF a >= b THEN a ELSE b

\* variant: the ratio the comments describe (firing = 0.375 * charging time)
FiringDurationFor_Ratio375(cd) ==
    Max(MinFiringDuration, (Min(cd, maxChargingTime) * 375) \div 1000)

\* Math.max(1875, Math.min(chargingDuration / maxChargingTime, 1.0) * maxFiringDuration)
FiringDurationFor(cd) ==
    Max(MinFiringDuration, (Min(cd, maxChargingTime) * maxFiringDuration) \div maxChargingTime)

\* ------------------------------------------------------------------- state
VARIABLES
    gestureState,
    stateStartTime,
    chargingDuration,
    positioningFrameCount,
    firingFrameCount,
    firingStartTime,
    allowedFiringDuration,
    firingStabilityCounter,
    beamDirection,
    currentHands,
    now,
    result,
    previousState,
    lastCall,
    invalidRun,
    startRun,
    callbacks,
    phaseFrames,
    lastDelivered,
    input,
    output

vars == <<gestureState, stateStartTime, chargingDuration, positioningFrameCount,
          firingFrameCount, firingStartTime, allowedFiringDuration,
          firingStabilityCounter, beamDirection, currentHands, now, result,
          previousState, lastCall, invalidRun, startRun, callbacks,
          phaseFrames, lastDelivered, input, output>>

\* nothing returned yet
NoResult == [state |-> "none"]

\* the detector as the constructor leaves it
DetectorInit ==
    /\ gestureState = "idle"
    /\ stateStartTime = 0
    /\ chargingDuration = 0
    /\ positioningFrameCount = 0
    /\ firingFrameCount = 0
    /\ firingStartTime = 0
    /\ allowedFiringDuration = 0
    /\ firingStabilityCounter = 0
    /\ beamDirection = "initial"
    /\ currentHands = NullHands
    /\ now = 0
    /\ result = NoResult
    /\ previousState = "idle"
    /\ lastCall = "none"
    /\ invalidRun = 0
    /\ startRun = 0
    /\ callbacks = <<>>
    /\ phaseFrames = 0
    /\ lastDelivered = "idle"

\* no argument handed to, no value returned by, a helper called on its own
NoInput == [kind |-> "none"]
NoOutput == [kind |-> "none"]

Init ==
    /\ DetectorInit
    /\ input = NoInput
    /\ output = NoOutput

\* ---------------------------------------------------------- detectGesture
\* variant: only a missing argument is caught, not an empty array
NoHandsDetected_NullOnly(hands) == ~hands.present

\* the guard of the early return: if (!hands || hands.length === 0)
NoHandsDetected(hands) == ~hands.present \/ hands.length = 0

\* variant: one frame late
PositioningComplete_OneLate(count) == count > PositioningFrames

\* positioning -> charging once the pose was held for 15 frames
PositioningComplete(count) == count >= PositioningFrames

\* variant: the limit itself is still allowed
MaxChargeReached_Strict(cd) == cd > maxChargingTime

\* charging -> idle when charged for too long
MaxChargeReached(cd) == cd >= maxChargingTime

\* variant: the minimum charging time is not checked
CanFire_NoGate(hands, cd) == isInFiringPosition(hands)

\* charging -> firing: firing pose seen and charged long enough
CanFire(hands, cd) == isInFiringPosition(hands) /\ cd >= minimumChargingTime

\* firing -> idle on the duration limit
FiringDurationReached(currentFiringDuration, allowed) == currentFiringDuration >= allowed

\* firing -> idle on the frame cap
FiringFramesComplete(count) == count >= FiringFrameCap

\* variant: one more invalid frame is tolerated
StabilityExceeded_OneMore(counter) == counter > firingStabilityThreshold

\* firing -> idle after consecutive invalid frames
StabilityExceeded(counter) == counter >= firingStabilityThreshold

\* the detector's fields as a record
Self ==
    [gestureState |-> gestureState,
     stateStartTime |-> stateStartTime,
     chargingDuration |-> chargingDuration,
     positioningFrameCount |-> positioningFrameCount,
     firingFrameCount |-> firingFrameCount,
     firingStartTime |-> firingStartTime,
     allowedFiringDuration |-> allowedFiringDuration,
     firingStabilityCounter |-> firingStabilityCounter,
     beamDirection |-> beamDirection]

\* the early-return branch: fields are cleared only when not already idle
NoHandsReset(s) ==
    IF s.gestureState # "idle"
    THEN [s EXCEPT !.gestureState = "idle",
                   !.positioningFrameCount = 0,
                   !.firingFrameCount = 0,
                   !.firingStabilityCounter = 0,
                   !.chargingDuration = 0]
    ELSE s

\* variant: the starting pose takes idle straight to charging
CaseIdle_SkipPositioning(s, hands, currentTime) ==
    IF isInStartingPosition(hands)
    THEN [s EXCEPT !.gestureState = "charging",
                   !.stateStartTime = currentTime,
                   !.positioningFrameCount = 1]
    ELSE s

CaseIdle(s, hands, currentTime) ==
    IF isInStartingPosition(hands)
    THEN [s EXCEPT !.gestureState = "positioning",
                   !.stateStartTime = currentTime,
                   !.positioningFrameCount = 1]
    ELSE s

\* variant: a frame without the pose is waited out in positioning
CasePositioning_KeepWaiting(s, hands, currentTime) ==
    IF isInStartingPosition(hands)
    THEN IF PositioningComplete(s.positioningFrameCount + 1)
         THEN [s EXCEPT !.positioningFrameCount = @ + 1,
                        !.gestureState = "charging",
                        !.stateStartTime = currentTime,
                        !.chargingDuration = 0]
         ELSE [s EXCEPT !.positioningFrameCount = @ + 1]
    ELSE s

\* variant: chargingDuration is not cleared on entry to charging
CasePositioning_KeepDuration(s, hands, currentTime) ==
    IF isInStartingPosition(hands)
    THEN IF PositioningComplete(s.positioningFrameCount + 1)
         THEN [s EXCEPT !.positioningFrameCount = @ + 1,
                        !.gestureState = "charging",
                        !.stateStartTime = currentTime]
         ELSE [s EXCEPT !.positioningFrameCount = @ + 1]
    ELSE [s EXCEPT !.gestureState = "idle",
                   !.positioningFrameCount = 0]

CasePositioning(s, hands, currentTime) ==
    IF isInStartingPosition(hands)
    THEN IF PositioningComplete(s.positioningFrameCount + 1)
         THEN [s EXCEPT !.positioningFrameCount = @ + 1,
                        !.gestureState = "charging",
                        !.stateStartTime = currentTime,
                        !.chargingDuration = 0]
         ELSE [s EXCEPT !.positioningFrameCount = @ + 1]
    ELSE [s EXCEPT !.gestureState = "idle",
                   !.positioningFrameCount = 0]

\* variant: the over-charge check is missing
CaseCharging_NoAbort(s, hands, currentTime) ==
    IF isInStartingPosition(hands)
    THEN [s EXCEPT !.chargingDuration = currentTime - s.stateStartTime]
    ELSE IF CanFire(hands, s.chargingDuration)
    THEN [s EXCEPT !.allowedFiringDuration = FiringDurationFor(s.chargingDuration),
                   !.firingStartTime = currentTime,
                   !.gestureState = "firing",
                   !.stateStartTime = currentTime,
                   !.firingFrameCount = 1,
                   !.firingStabilityCounter = 0,
                   !.beamDirection = calculateThrustDirection(hands)]
    ELSE [s EXCEPT !.gestureState = "idle"]

\* variant: a frame that neither charges nor fires is waited out
CaseCharging_Tolerant(s, hands, currentTime) ==
    IF isInStartingPosition(hands)
    THEN LET cd == currentTime - s.stateStartTime
         IN  IF MaxChargeReached(cd)
             THEN [s EXCEPT !.chargingDuration = cd, !.gestureState = "idle"]
             ELSE [s EXCEPT !.chargingDuration = cd]
    ELSE IF CanFire(hands, s.chargingDuration)
    THEN [s EXCEPT !.allowedFiringDuration = FiringDurationFor(s.chargingDuration),
                   !.firingStartTime = currentTime,
                   !.gestureState = "firing",
                   !.stateStartTime = currentTime,
                   !.firingFrameCount = 1,
                   !.firingStabilityCounter = 0,
                   !.beamDirection = calculateThrustDirection(hands)]
    ELSE s

\* variant: the gate and the formula use the time elapsed since charging began
CaseCharging_ElapsedGate(s, hands, currentTime) ==
    IF isInStartingPosition(hands)
    THEN LET cd == currentTime - s.stateStartTime
         IN  IF MaxChargeReached(cd)
             THEN [s EXCEPT !.chargingDuration = cd, !.gestureState = "idle"]
             ELSE [s EXCEPT !.chargingDuration = cd]
    ELSE IF CanFire(hands, currentTime - s.stateStartTime)
    THEN [s EXCEPT !.allowedFiringDuration = FiringDurationFor(currentTime - s.stateStartTime),
                   !.firingStartTime = currentTime,
                   !.gestureState = "firing",
                   !.stateStartTime = currentTime,
                   !.firingFrameCount = 1,
                   !.firingStabilityCounter = 0,
                   !.beamDirection = calculateThrustDirection(hands)]
    ELSE [s EXCEPT !.gestureState = "idle"]

CaseCharging(s, hands, currentTime) ==
    IF isInStartingPosition(hands)
    THEN LET cd == currentTime - s.stateStartTime
         IN  IF MaxChargeReached(cd)
             THEN [s EXCEPT !.chargingDuration = cd, !.gestureState = "idle"]
             ELSE [s EXCEPT !.chargingDuration = cd]
    ELSE IF CanFire(hands, s.chargingDuration)
    THEN [s EXCEPT !.allowedFiringDuration = FiringDurationFor(s.chargingDuration),
                   !.firingStartTime = currentTime,
                   !.gestureState = "firing",
                   !.stateStartTime = currentTime,
                   !.firingFrameCount = 1,
                   !.firingStabilityCounter = 0,
                   !.beamDirection = calculateThrustDirection(hands)]
    ELSE [s EXCEPT !.gestureState = "idle"]

\* variant: allowedFiringDuration is recomputed from the time spent firing
CaseFiring_Recompute(s, hands, currentTime) ==
    IF isInFiringPosition(hands)
    THEN LET currentFiringDuration == currentTime - s.firingStartTime
             t == [s EXCEPT !.firingStabilityCounter = 0,
                            !.firingFrameCount = @ + 1,
                            !.allowedFiringDuration = FiringDurationFor(currentFiringDuration),
                            !.beamDirection = calculateThrustDirection(hands)]
         IN  IF FiringDurationReached(currentFiringDuration, s.allowedFiringDuration)
             THEN [t EXCEPT !.gestureState = "idle"]
             ELSE IF FiringFramesComplete(t.firingFrameCount)
             THEN [t EXCEPT !.gestureState = "idle"]
             ELSE t
    ELSE LET t == [s EXCEPT !.firingStabilityCounter = @ + 1,
                            !.firingFrameCount = @ + 1]
         IN  IF StabilityExceeded(t.firingStabilityCounter)
             THEN [t EXCEPT !.gestureState = "idle"]
             ELSE t

\* variant: a valid firing frame does not clear firingStabilityCounter
CaseFiring_NoStreakReset(s, hands, currentTime) ==
    IF isInFiringPosition(hands)
    THEN LET currentFiringDuration == currentTime - s.firingStartTime
             t == [s EXCEPT !.firingFrameCount = @ + 1,
                            !.beamDirection = calculateThrustDirection(hands)]
         IN  IF FiringDurationReached(currentFiringDuration, s.allowedFiringDuration)
             THEN [t EXCEPT !.gestureState = "idle"]
             ELSE IF FiringFramesComplete(t.firingFrameCount)
             THEN [t EXCEPT !.gestureState = "idle"]
             ELSE t
    ELSE LET t == [s EXCEPT !.firingStabilityCounter = @ + 1,
                            !.firingFrameCount = @ + 1]
         IN  IF StabilityExceeded(t.firingStabilityCounter)
             THEN [t EXCEPT !.gestureState = "idle"]
             ELSE t

CaseFiring(s, hands, currentTime) ==
    IF isInFiringPosition(hands)
    THEN LET currentFiringDuration == currentTime - s.firingStartTime
             t == [s EXCEPT !.firingStabilityCounter = 0,
                            !.firingFrameCount = @ + 1,
                            !.beamDirection = calculateThrustDirection(hands)]
         IN  IF FiringDurationReached(currentFiringDuration, s.allowedFiringDuration)
             THEN [t EXCEPT !.gestureState = "idle"]
             ELSE IF FiringFramesComplete(t.firingFrameCount)
             THEN [t EXCEPT !.gestureState = "idle"]
             ELSE t
    ELSE LET t == [s EXCEPT !.firingStabilityCounter = @ + 1,
                            !.firingFrameCount = @ + 1]
         IN  IF StabilityExceeded(t.firingStabilityCounter)
             THEN [t EXCEPT !.gestureState = "idle"]
             ELSE t

\* the switch on this.gestureState
Switch(s, hands, currentTime) ==
    CASE s.gestureState = "idle" -> CaseIdle(s, hands, currentTime)
      [] s.gestureState = "positioning" -> CasePositioning(s, hands, currentTime)
      [] s.gestureState = "charging" -> CaseCharging(s, hands, currentTime)
      [] s.gestureState = "firing" -> CaseFiring(s, hands, currentTime)

\* the detector after detectGesture(hands) read the clock at currentTime
AfterDetect(s, hands, currentTime) ==
    IF NoHandsDetected(hands) THEN NoHandsReset(s) ELSE Switch(s, hands, currentTime)

\* variant: the sphere center is computed for every identified pair of hands
GestureData_CenterAlways(s, hands, currentTime) ==
    [state |-> s.gestureState,
     chargingDuration |-> s.chargingDuration,
     firingFrameCount |-> s.firingFrameCount,
     firingDirection |-> s.beamDirection,
     energySphereCenter |->
         IF hands.present /\ hands.length = 2 /\ HandsIdentified(hands)
         THEN "center" ELSE "null",
     allowedFiringDuration |-> s.allowedFiringDuration,
     currentFiringDuration |->
         IF s.gestureState = "firing" THEN currentTime - s.firingStartTime ELSE 0]

\* the record detectGesture returns (getGestureData() on the early return)
GestureData(s, hands, currentTime) ==
    [state |-> s.gestureState,
     chargingDuration |-> s.chargingDuration,
     firingFrameCount |-> s.firingFrameCount,
     firingDirection |-> s.beamDirection,
     energySphereCenter |->
         IF hands.present /\ hands.length = 2 /\ s.gestureState = "charging"
              /\ HandsIdentified(hands)
         THEN "center" ELSE "null",
     allowedFiringDuration |-> s.allowedFiringDuration,
     currentFiringDuration |->
         IF s.gestureState = "firing" THEN currentTime - s.firingStartTime ELSE 0]

\* index.js assigns the handler right after new KamehamehaDetector() and
\* never clears it, so this.onGestureChange is set in every call
onGestureChange == TRUE

\* the fields of the record getGestureData() builds
GestureDataFields ==
    {"state", "chargingDuration", "chargingProgress", "firingFrameCount",
     "firingDirection", "energySphereCenter", "allowedFiringDuration",
     "currentFiringDuration", "firingProgress"}

\* the fields of the object literal passed at the end of detectGesture
ChangeDataFields ==
    {"chargingDuration", "chargingProgress", "firingFrameCount",
     "allowedFiringDuration", "currentFiringDuration"}

\* variant: the early return does not notify the observer
Callbacks_SilentEarlyReturn(prev, s, hands) ==
    IF NoHandsDetected(hands)
    THEN <<>>
    ELSE IF prev # s.gestureState /\ onGestureChange
         THEN <<[state |-> s.gestureState, fields |-> ChangeDataFields]>>
         ELSE <<>>

\* the onGestureChange invocations of one call: entry state prev, detector
\* s at the end of the call
Callbacks(prev, s, hands) ==
    IF NoHandsDetected(hands)
    THEN IF prev # "idle" /\ prev # s.gestureState /\ onGestureChange
         THEN <<[state |-> s.gestureState, fields |-> GestureDataFields]>>
         ELSE <<>>
    ELSE IF prev # s.gestureState /\ onGestureChange
         THEN <<[state |-> s.gestureState, fields |-> ChangeDataFields]>>
         ELSE <<>>

\* a frame of exactly two hands whose firing pose is not valid
InvalidTwoHandFrame(hands) == hands.present /\ hands.length = 2 /\ ~isInFiringPosition(hands)

detectGesture(hands, currentTime) ==
    LET s == AfterDetect(Self, hands, currentTime)
        stored == IF NoHandsDetected(hands) THEN NullHands ELSE hands
    IN  /\ gestureState' = s.gestureState
        /\ stateStartTime' = s.stateStartTime
        /\ chargingDuration' = s.chargingDuration
        /\ positioningFrameCount' = s.positioningFrameCount
        /\ firingFrameCount' = s.firingFrameCount
        /\ firingStartTime' = s.firingStartTime
        /\ allowedFiringDuration' = s.allowedFiringDuration
        /\ firingStabilityCounter' = s.firingStabilityCounter
        /\ beamDirection' = s.beamDirection
        /\ currentHands' = stored
        /\ now' = currentTime
        /\ result' = GestureData(s, stored, currentTime)
        /\ previousState' = gestureState
        /\ lastCall' = "detectGesture"
        /\ invalidRun' = IF InvalidTwoHandFrame(hands) /\ gestureState = "firing"
                         THEN invalidRun + 1 ELSE 0
        /\ startRun' = IF ~isInStartingPosition(hands) THEN 0
                       ELSE IF gestureState = "idle" THEN 1
                       ELSE IF gestureState = "positioning" /\ startRun > 0
                       THEN startRun + 1 ELSE 0
        /\ callbacks' = Callbacks(gestureState, s, hands)
        /\ phaseFrames' = IF s.gestureState \notin {"positioning", "firing"} THEN 0
                          ELSE IF s.gestureState = gestureState THEN phaseFrames + 1 ELSE 1
        /\ lastDelivered' = LET made == Callbacks(gestureState, s, hands)
                            IN  IF made = <<>> THEN lastDelivered ELSE made[Len(made)].state
        /\ UNCHANGED <<input, output>>

\* ------------------------------------------------------------------- reset
reset ==
    /\ gestureState' = "idle"
    /\ stateStartTime' = 0
    /\ chargingDuration' = 0
    /\ positioningFrameCount' = 0
    /\ firingFrameCount' = 0
    /\ firingStartTime' = 0
    /\ allowedFiringDuration' = 0
    /\ firingStabilityCounter' = 0
    /\ currentHands' = NullHands
    /\ lastCall' = "reset"
    /\ invalidRun' = 0
    /\ startRun' = 0
    /\ callbacks' = <<>>
    /\ phaseFrames' = 0
    /\ UNCHANGED <<beamDirection, now, result, previousState, lastDelivered, input, output>>

\* ----------------------------------------------------------- specification
DetectGestureStep ==
    \E hands \in Frames, dt \in Steps :
        /\ now + dt <= MaxTime
        /\ detectGesture(hands, now + dt)

Next == DetectGestureStep \/ reset

Spec == Init /\ [][Next]_vars

TypeOK ==
    /\ gestureState \in States
    /\ currentHands \in Frames
    /\ now \in 0..MaxTime

\* ----------------------------------------------------------- identifyHands
\* largest wrist x coordinate drawn
MaxCoord == 2

\* a hand as identifyHands reads it: hasWrist / wristX for the wrist of
\* keypoints, has3D for the presence of keypoints3D, has3DWrist / wrist3DX
\* for the wrist in it (an x that is not there is written 0)
WristHands ==
    {h \in [hasWrist : BOOLEAN, wristX : 0..MaxCoord,
            has3D : BOOLEAN, has3DWrist : BOOLEAN, wrist3DX : 0..MaxCoord] :
        /\ (~h.hasWrist => h.wristX = 0)
        /\ (~h.has3D => ~h.has3DWrist)
        /\ (~h.has3DWrist => h.wrist3DX = 0)}

\* [null, null]; a labeling otherwise gives the positions, in the argument,
\* of the left and the right hand
NullLabeling == <<0, 0>>

\* both hands carry keypoints3D and a wrist in it
Both3DWrists(hand1, hand2) ==
    /\ hand1.has3D /\ hand2.has3D
    /\ hand1.has3DWrist /\ hand2.has3DWrist

\* variant: the 2D wrists are always the ones compared
identifyHands_Only2D(hands) ==
    IF Len(hands) # 2 THEN NullLabeling
    ELSE IF ~hands[1].hasWrist \/ ~hands[2].hasWrist THEN NullLabeling
    ELSE IF hands[1].wristX < hands[2].wristX THEN <<1, 2>> ELSE <<2, 1>>

identifyHands(hands) ==
    IF Len(hands) # 2 THEN NullLabeling
    ELSE LET hand1 == hands[1]
             hand2 == hands[2]
         IN  IF ~hand1.hasWrist \/ ~hand2.hasWrist THEN NullLabeling
             ELSE LET x1 == IF Both3DWrists(hand1, hand2)
                            THEN hand1.wrist3DX ELSE hand1.wristX
                      x2 == IF Both3DWrists(hand1, hand2)
                            THEN hand2.wrist3DX ELSE hand2.wristX
                  IN  IF x1 < x2 THEN <<1, 2>> ELSE <<2, 1>>

InitIdentify ==
    /\ DetectorInit
    /\ input \in {[kind |-> "hands", hands |-> <<a, b>>] : a \in WristHands, b \in WristHands}
    /\ output = NoOutput

IdentifyStep ==
    /\ input.kind = "hands"
    /\ output.kind = "none"
    /\ output' = [kind |-> "identified",
                  labeling |-> identifyHands(input.hands),
                  swapped |-> identifyHands(<<input.hands[2], input.hands[1]>>)]
    /\ UNCHANGED <<gestureState, stateStartTime, chargingDuration, positioningFrameCount,
                   firingFrameCount, firingStartTime, allowedFiringDuration,
                   firingStabilityCounter, beamDirection, currentHands, now, result,
                   previousState, lastCall, invalidRun, startRun, callbacks,
                   phaseFrames, lastDelivered, input>>

NextIdentify == IdentifyStep

SpecIdentify == InitIdentify /\ [][NextIdentify]_vars

\* ------------------------------------------------------------- pose scoring
\* the keypoint names the scorers look up
KeypointNames ==
    {"wrist", "thumb_tip", "index_finger_tip", "middle_finger_tip", "ring_finger_tip",
     "pinky_tip", "index_finger_mcp", "middle_finger_mcp", "ring_finger_mcp", "pinky_mcp"}

FingerTips ==
    {"thumb_tip", "index_finger_tip", "middle_finger_tip", "ring_finger_tip", "pinky_tip"}

\* the fingers checkFingersCurved walks, as <<tip, mcp>>
CurvedFingers ==
    {<<"index_finger_tip", "index_finger_mcp">>, <<"middle_finger_tip", "middle_finger_mcp">>,
     <<"ring_finger_tip", "ring_finger_mcp">>, <<"pinky_tip", "pinky_mcp">>}

ChargingCriteria ==
    {"wristDistance", "vFormation", "palms", "wristRotation", "fingersSpread", "energyFunnel"}

FiringCriteria == {"fingersCurved", "handsAligned", "wristsRotated", "energySphere"}

\* a hand is the set of keypoint names it carries; the hands drawn lack at
\* most one name each
KeypointHands == {KeypointNames} \cup {KeypointNames \ {k} : k \in KeypointNames}

\* a pair of labeled hands together with the outcome of every geometric test
\* (the criteria whose angles and distances are in range on the keypoints
\* that are there)
PoseInputs ==
    [kind : {"pose"}, left : KeypointHands, right : KeypointHands,
     chargingGeometry : SUBSET ChargingCriteria, firingGeometry : SUBSET FiringCriteria]

\* both hands carry every name of ks
BothHave(in, ks) == ks \subseteq in.left /\ ks \subseteq in.right

\* calculateEnhancedFingerSpread gives spread 0 and intensity 0 for a hand
\* lacking a tip or the wrist, which keeps the mean intensity at 0.5 or less
SpreadMeasured(in) == BothHave(in, FingerTips \cup {"wrist"})

\* analyzeDragonBallZEnergyFunnel reports missing keypoints otherwise
FunnelMeasured(in) == BothHave(in, {"wrist", "index_finger_tip", "middle_finger_tip"})

\* the criteria analyzeChargingPose counts
analyzeChargingPose(in) ==
    {c \in in.chargingGeometry :
        /\ c = "fingersSpread" => SpreadMeasured(in)
        /\ c = "energyFunnel" => FunnelMeasured(in)}

\* the keypoints isInStartingPosition requires before it scores anything
StartingRequired == {"wrist", "thumb_tip", "index_finger_tip"}

\* isInStartingPosition on two hands: the verdict, whether the criteria were
\* scored at all, and those satisfied
StartingPose(in) ==
    IF ~BothHave(in, {"wrist"}) THEN [valid |-> FALSE, scored |-> FALSE, satisfied |-> {}]
    ELSE IF ~BothHave(in, StartingRequired)
    THEN [valid |-> FALSE, scored |-> FALSE, satisfied |-> {}]
    ELSE [valid |-> Cardinality(analyzeChargingPose(in)) >= 2,
          scored |-> TRUE,
          satisfied |-> analyzeChargingPose(in)]

\* checkFingersCurved needs, on each hand, one finger with its tip and its mcp
CurvatureMeasured(in) ==
    /\ BothHave(in, {"wrist"})
    /\ \E f \in CurvedFingers : {f[1], f[2]} \subseteq in.left
    /\ \E f \in CurvedFingers : {f[1], f[2]} \subseteq in.right

\* the criteria the firing score counts
FiringScore(in) ==
    {c \in in.firingGeometry :
        /\ c = "fingersCurved" => CurvatureMeasured(in)
        /\ c = "wristsRotated" => BothHave(in, {"wrist", "thumb_tip"})
        /\ c = "energySphere" =>
               BothHave(in, {"wrist", "index_finger_tip", "middle_finger_tip"})}

\* the keypoints isInFiringPosition requires before it scores anything
FiringRequired == {"wrist", "thumb_tip", "index_finger_tip", "middle_finger_tip"}

\* isInFiringPosition on two hands
FiringPose(in) ==
    IF ~BothHave(in, {"wrist"}) THEN [valid |-> FALSE, scored |-> FALSE, satisfied |-> {}]
    ELSE IF ~BothHave(in, FiringRequired)
    THEN [valid |-> FALSE, scored |-> FALSE, satisfied |-> {}]
    ELSE [valid |-> Cardinality(FiringScore(in)) >= 2,
          scored |-> TRUE,
          satisfied |-> FiringScore(in)]

InitPose ==
    /\ DetectorInit
    /\ input \in PoseInputs
    /\ output = NoOutput

ScoreStep ==
    /\ input.kind = "pose"
    /\ output.kind = "none"
    /\ output' = [kind |-> "scored", starting |-> StartingPose(input),
                  firing |-> FiringPose(input), threw |-> FALSE]
    /\ UNCHANGED <<gestureState, stateStartTime, chargingDuration, positioningFrameCount,
                   firingFrameCount, firingStartTime, allowedFiringDuration,
                   firingStabilityCounter, beamDirection, currentHands, now, result,
                   previousState, lastCall, invalidRun, startRun, callbacks,
                   phaseFrames, lastDelivered, input>>

NextPose == ScoreStep

SpecPose == InitPose /\ [][NextPose]_vars

\* ----------------------------------------------------------- beam direction
\* largest wrist coordinate drawn
MaxAxis == 12

\* wrist coordinates: the multiples of 6 up to MaxAxis, so that two wrists
\* can coincide, lie less than 10 apart, or 10 and more apart
AxisValues == {v \in 0..MaxAxis : v % 6 = 0}

\* a wrist keypoint handed to the estimator, or none (written at 0, 0)
WristPoints ==
    {[found |-> FALSE, x |-> 0, y |-> 0]}
    \cup {[found |-> TRUE, x |-> a, y |-> b] : a \in AxisValues, b \in AxisValues}

\* what calculateFingerConvergenceDirection / calculatePalmFacingDirection
\* return on the hands of the frame: null, or a unit vector
DirectionResults ==
    {[found |-> FALSE, x |-> 0, y |-> 0],
     [found |-> TRUE, x |-> 1, y |-> 0],
     [found |-> TRUE, x |-> 0, y |-> 1]}

\* wristDistance < 10, on the squares
WristsTooClose(wristAxis) == wristAxis.x * wristAxis.x + wristAxis.y * wristAxis.y < 10 * 10

\* Math.abs(Math.atan2(y, x)) < Math.PI / 2
IsClockwise(wristAxis) == wristAxis.x > 0 \/ (wristAxis.x = 0 /\ wristAxis.y = 0)

\* PRIORITY 3: the wrist axis turned by a quarter
PerpendicularWrist(wristAxis) ==
    IF IsClockwise(wristAxis)
    THEN [x |-> 0 - wristAxis.y, y |-> wristAxis.x]
    ELSE [x |-> wristAxis.y, y |-> 0 - wristAxis.x]

\* variant: no fallback after the two hand-based strategies
calculateBeamDirectionFromWrists_NoFallback(leftWrist, rightWrist, handsGiven, fingerDirection, palmDirection) ==
    IF ~leftWrist.found \/ ~rightWrist.found
    THEN [error |-> "Missing wrist keypoints", method |-> "none", x |-> 1, y |-> 0]
    ELSE LET wristAxis == [x |-> rightWrist.x - leftWrist.x, y |-> rightWrist.y - leftWrist.y]
         IN  IF WristsTooClose(wristAxis)
             THEN [error |-> "Wrists too close together", method |-> "none", x |-> 1, y |-> 0]
             ELSE IF handsGiven /\ fingerDirection.found
             THEN [error |-> "none", method |-> "finger_convergence",
                   x |-> fingerDirection.x, y |-> fingerDirection.y]
             ELSE IF handsGiven /\ palmDirection.found
             THEN [error |-> "none", method |-> "palm_facing",
                   x |-> palmDirection.x, y |-> palmDirection.y]
             ELSE [error |-> "none", method |-> "default", x |-> 1, y |-> 0]

\* the record calculateBeamDirectionFromWrists returns: error, method and
\* the beam vector before it is normalised (1, 0 where the code returns its
\* default vector)
calculateBeamDirectionFromWrists(leftWrist, rightWrist, handsGiven, fingerDirection, palmDirection) ==
    IF ~leftWrist.found \/ ~rightWrist.found
    THEN [error |-> "Missing wrist keypoints", method |-> "none", x |-> 1, y |-> 0]
    ELSE LET wristAxis == [x |-> rightWrist.x - leftWrist.x, y |-> rightWrist.y - leftWrist.y]
         IN  IF WristsTooClose(wristAxis)
             THEN [error |-> "Wrists too close together", method |-> "none", x |-> 1, y |-> 0]
             ELSE IF handsGiven /\ fingerDirection.found
             THEN [error |-> "none", method |-> "finger_convergence",
                   x |-> fingerDirection.x, y |-> fingerDirection.y]
             ELSE IF handsGiven /\ palmDirection.found
             THEN [error |-> "none", method |-> "palm_facing",
                   x |-> palmDirection.x, y |-> palmDirection.y]
             ELSE [error |-> "none", method |-> "perpendicular_wrist",
                   x |-> PerpendicularWrist(wristAxis).x,
                   y |-> PerpendicularWrist(wristAxis).y]

BeamInputs ==
    [kind : {"wrists"}, leftWrist : WristPoints, rightWrist : WristPoints,
     handsGiven : BOOLEAN, fingerDirection : DirectionResults,
     palmDirection : DirectionResults]

InitBeam ==
    /\ DetectorInit
    /\ input \in BeamInputs
    /\ output = NoOutput

BeamStep ==
    /\ input.kind = "wrists"
    /\ output.kind = "none"
    /\ output' = [kind |-> "beam",
                  beam |-> calculateBeamDirectionFromWrists(
                               input.leftWrist, input.rightWrist, input.handsGiven,
                               input.fingerDirection, input.palmDirection)]
    /\ UNCHANGED <<gestureState, stateStartTime, chargingDuration, positioningFrameCount,
                   firingFrameCount, firingStartTime, allowedFiringDuration,
                   firingStabilityCounter, beamDirection, currentHands, now, result,
                   previousState, lastCall, invalidRun, startRun, callbacks,
                   phaseFrames, lastDelivered, input>>

NextBeam == BeamStep

SpecBeam == InitBeam /\ [][NextBeam]_vars

\* ================================================================== claims

\* the phase changes one detectGesture call may make
AllowedMoves ==
    {<<"idle", "positioning">>, <<"positioning", "charging">>, <<"positioning", "idle">>,
     <<"charging", "firing">>, <<"charging", "idle">>, <<"firing", "idle">>}

\* C1: the phase is always one of idle, positioning, charging, firing, and a
\* single detectGesture call either leaves it alone or makes one of the six
\* moves of AllowedMoves.
C1_PhaseMoves ==
    /\ [](gestureState \in States)
    /\ [][lastCall' = "detectGesture" /\ gestureState' # gestureState
            => <<gestureState, gestureState'>> \in AllowedMoves]_vars

\* C1 witness: a call has taken the detector from charging into firing, the
\* last link of the chain idle -> positioning -> charging -> firing.
C1_Witness ==
    /\ lastCall = "detectGesture"
    /\ previousState = "charging"
    /\ gestureState = "firing"

\* C2: a call moves the detector into firing only when chargingDuration is
\* at least 5000 ms at that call.
C2_FiringGate ==
    [][lastCall' = "detectGesture" /\ gestureState # "firing" /\ gestureState' = "firing"
         => chargingDuration >= 5000 /\ chargingDuration' >= 5000]_vars

\* C2 witness: firing was just entered with the smallest admissible charge.
C2_Witness ==
    /\ lastCall = "detectGesture"
    /\ previousState = "charging"
    /\ gestureState = "firing"
    /\ firingFrameCount = 1
    /\ chargingDuration = 5000

C4_FiveSecondsGives1875 ==
    (lastCall = "detectGesture" /\ previousState = "charging" /\ gestureState = "firing"
        /\ chargingDuration = 5000)
      => allowedFiringDuration = 1875

\* the last call was detectGesture with hands absent or an empty array
ZeroHandsCall ==
    lastCall = "detectGesture" /\ (~currentHands.present \/ currentHands.length = 0)

\* the last call was detectGesture with an array of exactly two hands
TwoHandsCall ==
    lastCall = "detectGesture" /\ currentHands.present /\ currentHands.length = 2

\* C5: while firing, two-hand frames whose firing pose is invalid end firing
\* only when five of them arrive in a row: after a run of 1 to 4 the state is
\* still firing, after a run of 5 it is idle (invalidRun restarts at every
\* other frame).
C5_FiveInvalidInARow ==
    (TwoHandsCall /\ previousState = "firing" /\ invalidRun >= 1)
      => gestureState = (IF invalidRun >= 5 THEN "idle" ELSE "firing")

\* C6: a frame processed while firing on which firingFrameCount has reached
\* 120, or the time since firing started has reached allowedFiringDuration,
\* ends the episode, whether or not the firing pose on it is valid.
C6_HardExit ==
    (TwoHandsCall /\ previousState = "firing"
        /\ (firingFrameCount >= 120 \/ now - firingStartTime >= allowedFiringDuration))
      => gestureState = "idle"

\* C7: from every phase, detectGesture with hands absent or empty returns
\* state idle and leaves the detector idle.
C7_NoHandsIdle ==
    ZeroHandsCall => gestureState = "idle" /\ result.state = "idle"

\* C7 witness: a zero-hands call arrived while the detector was firing.
C7_Witness ==
    /\ ZeroHandsCall
    /\ previousState = "firing"
    /\ result.state = "idle"

\* C8: from every phase, detectGesture with an array of one hand, or of three
\* or more, puts the detector in idle on that call.
C8_NotTwoHandsIdle ==
    (lastCall = "detectGesture" /\ currentHands.present /\ currentHands.length \notin {0, 2})
      => gestureState = "idle"

\* C9: after detectGesture with zero hands, chargingDuration,
\* positioningFrameCount, firingFrameCount and firingStabilityCounter are 0.
C9_NoHandsClearsCounters ==
    ZeroHandsCall
      => /\ chargingDuration = 0
         /\ positioningFrameCount = 0
         /\ firingFrameCount = 0
         /\ firingStabilityCounter = 0

\* C10: chargingDuration is 0 on the frame that enters charging from
\* positioning, and does not decrease from one frame to the next while the
\* state stays charging (clock readings never go back).
C10_ChargingDuration ==
    [][/\ (gestureState = "positioning" /\ gestureState' = "charging")
            => chargingDuration' = 0
       /\ (gestureState = "charging" /\ gestureState' = "charging")
            => chargingDuration' >= chargingDuration]_vars

\* C10 witness: charging was entered again after an earlier episode had left
\* chargingDuration at 5000 or more, and now reads 0; the clock has advanced.
C10_Witness ==
    /\ lastCall = "detectGesture"
    /\ previousState = "positioning"
    /\ gestureState = "charging"
    /\ chargingDuration = 0
    /\ allowedFiringDuration > 0

\* C11: starting from idle, a run of N charging-valid frames leaves the
\* state positioning for N = 1..14 and charging at N = 15, and charging is
\* entered only by the 15th frame of such a run.
C11_FifteenFrames ==
    /\ (lastCall = "detectGesture" /\ startRun \in 1..14) => gestureState = "positioning"
    /\ (lastCall = "detectGesture" /\ startRun = 15) => gestureState = "charging"
    /\ (lastCall = "detectGesture" /\ previousState # "charging" /\ gestureState = "charging")
         => startRun = 15
    /\ startRun <= 15

\* C11 witness: the 15th frame of the run has just entered charging.
C11_Witness ==
    /\ lastCall = "detectGesture"
    /\ startRun = 15
    /\ previousState = "positioning"
    /\ gestureState = "charging"

\* C12: once firing is entered, no later detectGesture call changes
\* allowedFiringDuration for as long as the state remains firing.
C12_AllowedDurationFixed ==
    [][lastCall' = "detectGesture" /\ gestureState = "firing" /\ gestureState' = "firing"
         => allowedFiringDuration' = allowedFiringDuration]_vars

\* C12 witness: a firing episode several frames old, the clock having moved
\* since it began, still holds the value assigned at its start.
C12_Witness ==
    /\ lastCall = "detectGesture"
    /\ previousState = "firing"
    /\ gestureState = "firing"
    /\ firingFrameCount >= 3
    /\ now > firingStartTime
    /\ allowedFiringDuration = 7500

\* C13: for a frame that reaches the switch (one hand or more), the firing
\* invalid-streak counter is set to 0 when the firing pose is valid while
\* firing, grows by exactly 1 when it is not valid while firing, and a
\* two-hand frame processed in idle, positioning or charging leaves it
\* alone unless it enters firing, which sets it to 0.
C13_StreakCounter ==
    [][(lastCall' = "detectGesture" /\ currentHands'.present /\ currentHands'.length # 0)
         => /\ (gestureState = "firing" /\ currentHands'.length = 2 /\ currentHands'.firingPose)
                 => firingStabilityCounter' = 0
            /\ (gestureState = "firing" /\ ~(currentHands'.length = 2 /\ currentHands'.firingPose))
                 => firingStabilityCounter' = firingStabilityCounter + 1
            /\ (gestureState # "firing" /\ currentHands'.length = 2)
                 => firingStabilityCounter' =
                        (IF gestureState' = "firing" THEN 0 ELSE firingStabilityCounter)]_vars

\* C13 witness: invalid frames of an earlier firing episode raised the counter
\* to 5, and two-hand frames processed since then in idle, positioning and
\* charging have left it there.
C13_Witness ==
    /\ TwoHandsCall
    /\ previousState = "charging"
    /\ gestureState = "charging"
    /\ firingStabilityCounter = 5

\* C14: a detectGesture call whose state at return differs from its state at
\* entry invokes onGestureChange exactly once, with the new state; a call
\* that leaves the state unchanged does not invoke it.
C14_OneCallbackPerChange ==
    lastCall = "detectGesture"
      => IF previousState # gestureState
         THEN Len(callbacks) = 1 /\ callbacks[1].state = gestureState
         ELSE callbacks = <<>>

\* C14 witness: a zero-hands call ended a firing episode and notified idle.
C14_Witness ==
    /\ ZeroHandsCall
    /\ previousState = "firing"
    /\ gestureState = "idle"
    /\ Len(callbacks) = 1

\* C15: on every transition the snapshot passed to onGestureChange carries
\* chargingProgress, firingProgress and the beam direction, and the
\* energy-sphere center when the new state is charging.
C15_SnapshotFields ==
    (lastCall = "detectGesture" /\ callbacks # <<>>)
      => /\ {"chargingProgress", "firingProgress", "firingDirection"} \subseteq callbacks[1].fields
         /\ callbacks[1].state = "charging" => "energySphereCenter" \in callbacks[1].fields

\* C16: after reset() every field of the detector, the stored beam direction
\* included, has the value it has in a freshly constructed detector.
C16_ResetRestoresAll ==
    lastCall = "reset"
      => /\ gestureState = "idle"
         /\ stateStartTime = 0
         /\ chargingDuration = 0
         /\ allowedFiringDuration = 0
         /\ positioningFrameCount = 0
         /\ firingFrameCount = 0
         /\ firingStartTime = 0
         /\ firingStabilityCounter = 0
         /\ beamDirection = "initial"

\* the method names of the lock-in estimator
LockInMethods == {"finger_convergence", "palm_facing", "perpendicular_wrist"}

\* C17: the beam direction stored on the charging -> firing transition comes
\* from the lock-in estimator (finger-convergence, palm-facing or
\* perpendicular-wrist), not from the origin-to-midpoint estimate.
C17_LockInAtTransition ==
    (lastCall = "detectGesture" /\ previousState = "charging" /\ gestureState = "firing")
      => beamDirection \in LockInMethods

\* C19: in every record detectGesture returns, energySphereCenter is non-null
\* exactly when the returned state is charging.
C19_CenterIffCharging ==
    lastCall = "detectGesture"
      => (result.energySphereCenter # "null" <=> result.state = "charging")

\* C19 witness: a record returned in charging that carries a center.
C19_Witness ==
    /\ lastCall = "detectGesture"
    /\ result.state = "charging"
    /\ result.energySphereCenter = "center"
    /\ result.chargingDuration = 5000

\* C18: identifyHands on two hands returns no labeling when either hand
\* lacks a wrist keypoint; otherwise the hand with the smaller wrist x is
\* left, where the x compared is the 3D wrist's when both hands have a 3D
\* wrist and the 2D wrist's in every other case.
C18_IdentifyHands ==
    output.kind = "identified"
      => LET a == input.hands[1]
             b == input.hands[2]
             threeD == a.has3D /\ a.has3DWrist /\ b.has3D /\ b.has3DWrist
             xa == IF threeD THEN a.wrist3DX ELSE a.wristX
             xb == IF threeD THEN b.wrist3DX ELSE b.wristX
         IN  IF ~a.hasWrist \/ ~b.hasWrist
             THEN output.labeling = <<0, 0>>
             ELSE /\ output.labeling \in {<<1, 2>>, <<2, 1>>}
                  /\ xa < xb => output.labeling = <<1, 2>>
                  /\ xb < xa => output.labeling = <<2, 1>>

\* C18 witness: both hands have 3D wrists whose order is the reverse of the
\* 2D order, and the 3D order decided.
C18_Witness ==
    /\ output.kind = "identified"
    /\ input.hands[1].hasWrist /\ input.hands[2].hasWrist
    /\ input.hands[1].wristX = 0 /\ input.hands[2].wristX = 1
    /\ input.hands[1].has3DWrist /\ input.hands[2].has3DWrist
    /\ input.hands[1].wrist3DX = 2 /\ input.hands[2].wrist3DX = 1
    /\ output.labeling = <<2, 1>>

\* the keypoints that exactly one criterion of a pose cannot do without,
\* with that criterion
SoleChargingUse == {<<"ring_finger_tip", "fingersSpread">>, <<"pinky_tip", "fingersSpread">>}
SoleFiringUse == {<<"thumb_tip", "wristsRotated">>}

\* the pose record p is what the claim describes for the geometry g when the
\* keypoint that criterion c needs is absent: c is not satisfied, every other
\* criterion is scored as the geometry says, and two satisfied criteria make
\* the pose valid
ScoredWithout(p, g, c) ==
    /\ p.scored
    /\ p.satisfied = g \ {c}
    /\ p.valid <=> Cardinality(g \ {c}) >= 2

\* C20: when a keypoint needed by one scoring criterion is absent from a
\* two-hand frame, that criterion alone is scored false, the other criteria
\* are still scored and can make the pose valid, and nothing is thrown.
C20_MissingKeypointOneCriterion ==
    output.kind = "scored"
      => /\ ~output.threw
         /\ \A u \in SoleChargingUse :
               (u[1] \notin input.left \/ u[1] \notin input.right)
                 => ScoredWithout(output.starting, input.chargingGeometry, u[2])
         /\ \A u \in SoleFiringUse :
               (u[1] \notin input.left \/ u[1] \notin input.right)
                 => ScoredWithout(output.firing, input.firingGeometry, u[2])

\* C21: a charging-valid frame processed while charging on which
\* chargingDuration reaches 20000 ms or more moves the state to idle, and no
\* call ends in charging with chargingDuration at 20000 or more.
C21_OverChargeAbort ==
    /\ (lastCall = "detectGesture" /\ previousState = "charging"
           /\ TwoHandsCall /\ currentHands.wrists /\ currentHands.startingPose
           /\ chargingDuration >= 20000)
         => gestureState = "idle"
    /\ gestureState = "charging" => chargingDuration < 20000

\* C21 witness: a valid charging frame 20000 ms after charging began has
\* ended the episode.
C21_Witness ==
    /\ TwoHandsCall
    /\ currentHands.startingPose
    /\ previousState = "charging"
    /\ gestureState = "idle"
    /\ chargingDuration = 20000

\* C22: while charging, one two-hand frame whose charging pose is invalid
\* and which does not qualify for firing (firing pose invalid, or
\* chargingDuration below 5000 ms) moves the state to idle on that frame.
C22_ChargingLostIdle ==
    [][(gestureState = "charging" /\ lastCall' = "detectGesture"
          /\ currentHands'.present /\ currentHands'.length = 2
          /\ ~(currentHands'.wrists /\ currentHands'.startingPose)
          /\ (~(currentHands'.wrists /\ currentHands'.firingPose) \/ chargingDuration < 5000))
         => gestureState' = "idle"]_vars

\* C22 witness: a single frame with neither pose ended a charge of 10000 ms.
C22_Witness ==
    /\ TwoHandsCall
    /\ ~currentHands.startingPose
    /\ ~currentHands.firingPose
    /\ previousState = "charging"
    /\ gestureState = "idle"
    /\ chargingDuration = 10000

\* C23: no phase other than idle can be held for ever: at most 14 calls in a
\* row return in positioning (the 15th frame leaves it), a call returns in
\* charging only less than 20000 ms after charging was entered, and at most
\* 123 calls in a row return in firing.
C23_NeverStuck ==
    /\ gestureState = "positioning" => phaseFrames <= 14
    /\ gestureState = "charging" => now - stateStartTime < 20000
    /\ gestureState = "firing" => phaseFrames <= 123

\* C23 witness: the longest firing episode, 123 frames old, the clock having
\* advanced during the charge.
C23_Witness ==
    /\ lastCall = "detectGesture"
    /\ gestureState = "firing"
    /\ phaseFrames = 123
    /\ now >= 5000

\* both wrists were handed to calculateBeamDirectionFromWrists and it returned
BeamReturned ==
    output.kind = "beam" /\ input.leftWrist.found /\ input.rightWrist.found

\* neither hand-based strategy gives a direction on this input
HandStrategiesFail ==
    ~input.handsGiven \/ (~input.fingerDirection.found /\ ~input.palmDirection.found)

\* the squared distance between the two wrists of the input
WristDistanceSquared ==
    (input.rightWrist.x - input.leftWrist.x) * (input.rightWrist.x - input.leftWrist.x)
    + (input.rightWrist.y - input.leftWrist.y) * (input.rightWrist.y - input.leftWrist.y)

\* C24 as stated: given both wrists, calculateBeamDirectionFromWrists always
\* yields a direction from one of the three strategies, the
\* perpendicular-wrist fallback supplying it when the other two fail, for
\* every wrist geometry including wrists less than 10 units apart.
C24_AlwaysAStrategy ==
    BeamReturned
      => /\ output.beam.method \in LockInMethods
         /\ HandStrategiesFail => output.beam.method = "perpendicular_wrist"

\* C24 amended: given both wrists 10 units or more apart, the result comes
\* from one of the three strategies, from the perpendicular-wrist fallback
\* (a non-zero vector at right angles to the wrist axis) when the other two
\* fail; given wrists less than 10 units apart, the result is the default
\* vector (1, 0) with an error and no strategy.
C24_StrategyWhenApart ==
    BeamReturned
      => IF WristDistanceSquared >= 100
         THEN /\ output.beam.error = "none"
              /\ output.beam.method \in LockInMethods
              /\ HandStrategiesFail
                   => /\ output.beam.method = "perpendicular_wrist"
                      /\ output.beam.x * output.beam.x + output.beam.y * output.beam.y
                           = WristDistanceSquared
                      /\ output.beam.x * (input.rightWrist.x - input.leftWrist.x)
                           + output.beam.y * (input.rightWrist.y - input.leftWrist.y) = 0
         ELSE /\ output.beam.error = "Wrists too close together"
              /\ output.beam.method = "none"
              /\ output.beam.x = 1 /\ output.beam.y = 0

\* C24 witness: both hand-based strategies failed on wrists 12 apart and the
\* fallback supplied the direction.
C24_Witness ==
    /\ BeamReturned
    /\ input.handsGiven
    /\ ~input.fingerDirection.found
    /\ ~input.palmDirection.found
    /\ WristDistanceSquared = 144
    /\ output.beam.method = "perpendicular_wrist"

C26_FrameCountCeiling ==
    /\ firingFrameCount <= 124
    /\ gestureState = "firing" => firingFrameCount <= 123

\* C26 witness: 119 frames kept firing, four invalid frames were tolerated,
\* and the 124th frame ended the episode.
C26_Witness ==
    /\ lastCall = "detectGesture"
    /\ previousState = "firing"
    /\ gestureState = "idle"
    /\ firingStabilityCounter >= 4
    /\ firingFrameCount = 124

\* C27: every record detectGesture returns with state firing has
\* currentFiringDuration below allowedFiringDuration, also on frames whose
\* firing pose is invalid.
C27_DurationBelowAllowed ==
    (lastCall = "detectGesture" /\ result.state = "firing")
      => result.currentFiringDuration < result.allowedFiringDuration

\* C28: after any sequence of detectGesture and reset calls the state most
\* recently passed to onGestureChange is the detector's state (idle if none
\* was passed); a reset made while not idle is passed on like any other change.
C28_ObserverInStep ==
    lastDelivered = gestureState

\* C29: identifyHands gives the same hand as left for [a, b] and for [b, a],
\* also when the two wrist x-coordinates compared are equal.
C29_OrderIndependent ==
    (output.kind = "identified" /\ output.labeling # NullLabeling)
      => /\ output.swapped # NullLabeling
         /\ input.hands[output.labeling[1]]
              = (<<input.hands[2], input.hands[1]>>)[output.swapped[1]]

\* the frame of the call just made shows the firing pose to the charging
\* case: two hands, charging pose not valid, firing pose valid
FiringPoseFrame(hands) ==
    /\ hands.present /\ hands.length = 2 /\ hands.wrists
    /\ ~hands.startingPose
    /\ hands.firingPose

\* C30: while charging, chargingDuration is the time of the most recent
\* charging-valid frame (or of the entry) minus the entry time; a frame that
\* shows the firing pose is judged on that value alone (firing with the
\* formula applied to it when it is 5000 or more, idle otherwise), whatever
\* time has passed since, so the first frame after charging was entered
\* leads to idle when it shows the firing pose.
C30_GateUsesRecordedDuration ==
    /\ [](gestureState = "charging" => chargingDuration = now - stateStartTime)
    /\ [][(gestureState = "charging" /\ lastCall' = "detectGesture"
             /\ FiringPoseFrame(currentHands'))
            => /\ chargingDuration' = chargingDuration
               /\ IF chargingDuration >= 5000
                  THEN /\ gestureState' = "firing"
                       /\ 20000 * allowedFiringDuration' = 15000 * chargingDuration
                  ELSE gestureState' = "idle"]_vars
    /\ [][(gestureState = "charging" /\ previousState = "positioning"
             /\ lastCall = "detectGesture" /\ lastCall' = "detectGesture"
             /\ FiringPoseFrame(currentHands'))
            => gestureState' = "idle"]_vars

\* C30 witness: the firing pose was shown 5000 ms after charging began, on
\* the first frame since; the recorded duration was still 0 and the call
\* ended in idle.
C30_Witness ==
    /\ lastCall = "detectGesture"
    /\ FiringPoseFrame(currentHands)
    /\ previousState = "charging"
    /\ gestureState = "idle"
    /\ chargingDuration = 0
    /\ now - stateStartTime = 5000

====
